---- MODULE Spec2Model ----
(***************************************************************************)
(* ai-chat: the SQLite persistence layer (database.py, DatabaseManager)    *)
(* and the command loop that drives it (chat_cli.py, ChatCLI).             *)
(*                                                                         *)
(* Three specifications share the variables:                               *)
(*   StoreSpec    DatabaseManager driven by an arbitrary caller: sessions  *)
(*                and messages, one method call per step; delete_session   *)
(*                is split into its SQL statements so that a process crash *)
(*                can fall between them.                                   *)
(*   SessionSpec  DatabaseManager driven by an arbitrary caller: the       *)
(*                models table and the session rows and their updates.     *)
(*   Spec         ChatCLI: construction, run(), one input line per step,   *)
(*                a chat turn with the answer of the completion endpoint.  *)
(***************************************************************************)
EXTENDS Integers, Sequences, FiniteSets, TLC

\* Bounds of the model: the rows ever inserted into chat_sessions and into
\* chat_messages, and the latest tick a caller of add_message may pass as the
\* timestamp of a message.
MaxSessions == 2
MaxMessages == 2
MaxClock == 1

VARIABLES
    db,                  \* the database file: the committed tables
    txn,                 \* the open transaction of delete_session: <<>> or <<t>>
    clock,               \* the last reading of datetime.now(), in clock ticks
    current_model,       \* ChatCLI.current_model
    current_session_id,  \* ChatCLI.current_session_id: None or <<id>>
    pc,                  \* where the process is: "start", "prompt", "calling", "exited"
    io                   \* the last call or input line, and what came of it

vars == <<db, txn, clock, current_model, current_session_id, pc, io>>

(***************************************************************************)
(* Values                                                                  *)
(***************************************************************************)
None == <<>>

\* Python truthiness of an Optional[int]: None and 0 are false.
Truthy(x) == x # None /\ x # <<0>>

KnownModels == {"m1"}                 \* the names listed in models.yaml
ModelNames == KnownModels \cup {"zz"}  \* "zz" is in no models.yaml
Roles == {"user", "assistant"}
Contents == {"hi"}
Replies == {"hello"}

\* A datetime is seconds and microseconds; tick t of the clock reads as
\* second 9 + t \div 2 and t % 2 microseconds.
Datetime(t) == [sec |-> 9 + (t \div 2), usec |-> t % 2]
Ticks == 0..MaxClock

\* datetime.now().  Two readings by one process are separated by a committed
\* INSERT and by a prompt or a round trip to the endpoint, and the clock has
\* microsecond resolution: a reading is later than the one before it.
Now == clock + 1

\* datetime.isoformat() as the adapter stores it: zero-padded seconds and the
\* fraction only when microsecond is not zero ("09", "09.1", "10"), as
\* character codes ("0" is 48, "." is 46).
adapt_datetime(val) ==
    <<48 + (val.sec \div 10), 48 + (val.sec % 10)>>
        \o (IF val.usec = 0 THEN <<>> ELSE <<46, 48 + val.usec>>)

\* datetime.fromisoformat() of a stored text.
convert_datetime(val) ==
    [sec |-> (val[1] - 48) * 10 + (val[2] - 48),
     usec |-> IF Len(val) = 2 THEN 0 ELSE val[4] - 48]

\* SQLite's BINARY collation on TEXT (memcmp, a proper prefix sorts first).
TextLess(a, b) ==
    \E i \in 1..Len(b) :
        /\ \A j \in 1..(i - 1) : j <= Len(a) /\ a[j] = b[j]
        /\ (i > Len(a) \/ a[i] < b[i])

ChatMessage(role, content, timestamp, model) ==
    [role |-> role, content |-> content, timestamp |-> timestamp, model |-> model]

(***************************************************************************)
(* DatabaseManager: each method as a function of the database              *)
(***************************************************************************)
\* The schema of initialize_database on a new file: three empty tables.
\* sqlite_sequence holds the largest rowid ever used by an AUTOINCREMENT table.
initialize_database ==
    [models |-> {},
     chat_sessions |-> {},
     chat_messages |-> {},
     sqlite_sequence |-> [chat_sessions |-> 0, chat_messages |-> 0]]

\* get_connection issues no PRAGMA foreign_keys, so SQLite's default stands:
\* the FOREIGN KEY clauses of the schema are parsed and not enforced.
foreign_keys == FALSE

SessionRows(d, session_id) == {s \in d.chat_sessions : s.id = session_id}
MessageRows(d, session_id) == {m \in d.chat_messages : m.session_id = session_id}

\* INSERT INTO models; name is UNIQUE, the IntegrityError is caught and the
\* table is left as it was.
ModelExists(d, name) == \E m \in d.models : m.name = name
\* INSERT OR REPLACE: the later description wins.
insert_model_replace(d, name, description) ==
    [d EXCEPT !.models = {m \in @ : m.name # name}
                            \cup {[name |-> name, description |-> description]}]

insert_model(d, name, description) ==
    IF ModelExists(d, name)
    THEN d
    ELSE [d EXCEPT !.models = @ \cup {[name |-> name, description |-> description]}]

get_all_models(d) == {<<m.name, m.description>> : m \in d.models}

\* INTEGER PRIMARY KEY without AUTOINCREMENT: one more than the largest rowid
\* in the table, so the id of a deleted last row is given out again.
MaxId(rows) == IF rows = {} THEN 0 ELSE CHOOSE n \in {r.id : r \in rows} : \A r \in rows : r.id <= n
NextRowIdReused(d, table) == MaxId(d[table]) + 1

\* INTEGER PRIMARY KEY AUTOINCREMENT: one more than the largest rowid ever used.
NextRowId(d, table) == d.sqlite_sequence[table] + 1

create_session(d, model, title, description, now) ==
    [d EXCEPT
        !.chat_sessions = @ \cup
            {[id |-> NextRowId(d, "chat_sessions"),
              start_time |-> adapt_datetime(now),
              current_model |-> model,
              title |-> title,
              description |-> description]},
        !.sqlite_sequence.chat_sessions = NextRowId(d, "chat_sessions")]

\* cursor.lastrowid after create_session.
lastrowid(d) == d.sqlite_sequence.chat_sessions

\* add_message raises only when foreign keys are enforced and the parent is absent.
add_message_raises(d, session_id, message) ==
    foreign_keys /\ SessionRows(d, session_id) = {}

\* An INSERT that is never committed.
add_message_lost(d, session_id, message) == d

add_message(d, session_id, message) ==
    IF add_message_raises(d, session_id, message)
    THEN d
    ELSE [d EXCEPT
            !.chat_messages = @ \cup
                {[id |-> NextRowId(d, "chat_messages"),
                  session_id |-> session_id,
                  timestamp |-> adapt_datetime(message.timestamp),
                  role |-> message.role,
                  content |-> message.content,
                  model |-> message.model]},
            !.sqlite_sequence.chat_messages = NextRowId(d, "chat_messages")]

\* UPDATE ... WHERE id = ?: rows that do not match are left alone, and an
\* UPDATE that matches no row is not an error.
\* update_session_model whose UPDATE never reaches the file.
update_session_model_lost(d, session_id, model) == d

\* The UPDATE without its WHERE clause.
update_session_model_all(d, session_id, model) ==
    [d EXCEPT !.chat_sessions = {[s EXCEPT !.current_model = model] : s \in @}]

update_session_model(d, session_id, model) ==
    [d EXCEPT !.chat_sessions =
        {IF s.id = session_id THEN [s EXCEPT !.current_model = model] ELSE s : s \in @}]

update_session_title(d, session_id, new_title) ==
    [d EXCEPT !.chat_sessions =
        {IF s.id = session_id THEN [s EXCEPT !.title = new_title] ELSE s : s \in @}]

\* DELETE FROM chat_messages without the WHERE clause.
DeleteMessagesNoWhere(d, session_id) == [d EXCEPT !.chat_messages = {}]

\* delete_session without its first DELETE.
DeleteMessagesSkipped(d, session_id) == d

\* The two statements of delete_session.
DeleteMessagesStmt(d, session_id) ==
    [d EXCEPT !.chat_messages = {m \in @ : m.session_id # session_id}]
DeleteSessionStmt(d, session_id) ==
    [d EXCEPT !.chat_sessions = {s \in @ : s.id # session_id}]

delete_session(d, session_id) ==
    DeleteSessionStmt(DeleteMessagesStmt(d, session_id), session_id)

\* ORDER BY <key>: every arrangement of the rows in which no row precedes a row
\* of smaller key.  The statement names no further key, so SQL leaves the
\* relative order of rows of equal key to the engine.
Arrangements(rows) ==
    {f \in [1..Cardinality(rows) -> rows] : \A r \in rows : \E i \in DOMAIN f : f[i] = r}

\* The same SELECT without its ORDER BY clause.
OrderByNothing(rows) == Arrangements(rows)

OrderByTimestamp(rows) ==
    {f \in Arrangements(rows) :
        \A i, j \in DOMAIN f : i < j => ~TextLess(f[j].timestamp, f[i].timestamp)}

\* ORDER BY start_time without DESC.
OrderByStartTimeAsc(rows) ==
    {f \in Arrangements(rows) :
        \A i, j \in DOMAIN f : i < j => ~TextLess(f[j].start_time, f[i].start_time)}

OrderByStartTimeDesc(rows) ==
    {f \in Arrangements(rows) :
        \A i, j \in DOMAIN f : i < j => ~TextLess(f[i].start_time, f[j].start_time)}

\* The rows the second SELECT of get_session may fetch, in the order fetched.
SelectMessages(d, session_id) == OrderByTimestamp(MessageRows(d, session_id))

MessageOfRow(row) ==
    ChatMessage(row.role, row.content, convert_datetime(row.timestamp), row.model)

ChatSession(row, rows) ==
    [id |-> row.id,
     start_time |-> convert_datetime(row.start_time),
     current_model |-> row.current_model,
     messages |-> [i \in DOMAIN rows |-> MessageOfRow(rows[i])]]

\* get_session: the values the call may return, None when no row has the id.
get_session(d, session_id) ==
    IF SessionRows(d, session_id) = {}
    THEN {None}
    ELSE {ChatSession(s, rows) :
            s \in SessionRows(d, session_id), rows \in SelectMessages(d, session_id)}

\* get_all_sessions: the lists the call may return.
get_all_sessions(d) ==
    {[i \in DOMAIN f |->
        <<f[i].id, convert_datetime(f[i].start_time), f[i].current_model, f[i].title>>] :
        f \in OrderByStartTimeDesc(d.chat_sessions)}

(***************************************************************************)
(* Transactions.  sqlite3.connect() is called with the default             *)
(* isolation_level, so the first DELETE opens a transaction and the        *)
(* statements of one `with conn:` block reach the file together, at the    *)
(* commit on leaving the block.  A process that dies before the commit     *)
(* leaves a journal that the next connection rolls back.                   *)
(***************************************************************************)
\* What the file holds after a statement of an open transaction has run
\* (autocommit: what it would hold with isolation_level=None).
autocommit(committed, work) == work
implicit_transaction(committed, work) == committed

Call(op, sid, arg, out) == [op |-> op, sid |-> sid, arg |-> arg, out |-> out]

Idle == txn = <<>>

(***************************************************************************)
(* The methods of DatabaseManager as steps of an arbitrary caller          *)
(***************************************************************************)
SessionIds == 1..MaxSessions
cliVars == <<current_model, current_session_id, pc>>

StoreInit ==
    /\ db = initialize_database
    /\ txn = <<>>
    /\ clock = 0
    /\ current_model = "m1"
    /\ current_session_id = None
    /\ pc = "start"
    /\ io = Call("__init__", None, "", "")

InsertModel(name, description) ==
    /\ Idle
    /\ db' = insert_model(db, name, description)
    /\ io' = Call("insert_model", None, name,
                  IF ModelExists(db, name) THEN "already exists" ELSE "")
    /\ UNCHANGED <<txn, clock, cliVars>>

CreateSession(model, title) ==
    /\ Idle
    /\ db.sqlite_sequence.chat_sessions < MaxSessions
    /\ clock' = Now
    /\ db' = create_session(db, model, title, "", Datetime(Now))
    /\ io' = Call("create_session", <<lastrowid(db')>>, model, "")
    /\ UNCHANGED <<txn, cliVars>>

AddMessage(session_id, message) ==
    /\ Idle
    /\ db.sqlite_sequence.chat_messages < MaxMessages
    /\ db' = add_message(db, session_id, message)
    /\ io' = Call("add_message", <<session_id>>, "",
                  IF add_message_raises(db, session_id, message)
                  THEN "IntegrityError" ELSE "")
    /\ UNCHANGED <<txn, clock, cliVars>>

UpdateSessionModel(session_id, model) ==
    /\ Idle
    /\ db' = update_session_model(db, session_id, model)
    /\ io' = Call("update_session_model", <<session_id>>, model, "")
    /\ UNCHANGED <<txn, clock, cliVars>>

UpdateSessionTitle(session_id, new_title) ==
    /\ Idle
    /\ db' = update_session_title(db, session_id, new_title)
    /\ io' = Call("update_session_title", <<session_id>>, new_title, "")
    /\ UNCHANGED <<txn, clock, cliVars>>

DeleteSession(session_id) ==
    /\ Idle
    /\ db' = delete_session(db, session_id)
    /\ io' = Call("delete_session", <<session_id>>, "", "")
    /\ UNCHANGED <<txn, clock, cliVars>>

\* delete_session, statement by statement.
DeleteBegin(session_id) ==
    /\ Idle
    /\ txn' = <<[session_id |-> session_id, stage |-> "messages", work |-> db]>>
    /\ io' = Call("delete_session", <<session_id>>, "", "running")
    /\ UNCHANGED <<db, clock, cliVars>>

DeleteMessages ==
    /\ ~Idle
    /\ txn[1].stage = "messages"
    /\ LET work == DeleteMessagesStmt(txn[1].work, txn[1].session_id) IN
        /\ txn' = <<[txn[1] EXCEPT !.stage = "session", !.work = work]>>
        /\ db' = implicit_transaction(db, work)
    /\ UNCHANGED <<clock, cliVars, io>>

DeleteSessionRow ==
    /\ ~Idle
    /\ txn[1].stage = "session"
    /\ LET work == DeleteSessionStmt(txn[1].work, txn[1].session_id) IN
        /\ txn' = <<[txn[1] EXCEPT !.stage = "commit", !.work = work]>>
        /\ db' = implicit_transaction(db, work)
    /\ UNCHANGED <<clock, cliVars, io>>

Commit ==
    /\ ~Idle
    /\ txn[1].stage = "commit"
    /\ db' = txn[1].work
    /\ txn' = <<>>
    /\ io' = [io EXCEPT !.out = ""]
    /\ UNCHANGED <<clock, cliVars>>

\* The process dies inside delete_session; the journal is rolled back.
Crash ==
    /\ ~Idle
    /\ txn' = <<>>
    /\ io' = [io EXCEPT !.out = "crashed"]
    /\ UNCHANGED <<db, clock, cliVars>>

(***************************************************************************)
(* StoreSpec: sessions and their messages; delete_session can crash        *)
(***************************************************************************)
StoreMessages ==
    {ChatMessage(role, content, Datetime(t), "m1") :
        role \in Roles, content \in Contents, t \in Ticks}

StoreNext ==
    \/ CreateSession("m1", "")
    \/ \E session_id \in SessionIds, message \in StoreMessages :
        AddMessage(session_id, message)
    \/ \E session_id \in SessionIds : DeleteBegin(session_id)
    \/ DeleteMessages
    \/ DeleteSessionRow
    \/ Commit
    \/ Crash

StoreSpec == StoreInit /\ [][StoreNext]_vars

(***************************************************************************)
(* SessionSpec: the models table and the session rows                      *)
(***************************************************************************)
SessionNext ==
    \/ \E description \in {"", "d"} : InsertModel("m1", description)
    \/ \E model \in {"m1", "zz"}, title \in {"", "t"} : CreateSession(model, title)
    \/ \E session_id \in SessionIds : UpdateSessionModel(session_id, "m2")
    \/ \E session_id \in SessionIds : UpdateSessionTitle(session_id, "t2")
    \/ \E session_id \in SessionIds : DeleteSession(session_id)

SessionSpec == StoreInit /\ [][SessionNext]_vars

(***************************************************************************)
(* ChatCLI                                                                 *)
(***************************************************************************)
\* models.yaml, and the values config.yaml may give default_model.
ModelsYaml == <<[name |-> "m1", description |-> "d"]>>
DefaultModels == {"m1", "zz"}

RECURSIVE InsertModels(_, _)
InsertModels(d, list) ==
    IF list = <<>> THEN d
    ELSE InsertModels(insert_model(d, Head(list).name, Head(list).description), Tail(list))

load_models_from_yaml(d) == InsertModels(d, ModelsYaml)

\* Python truthiness of a str and of an Optional[str] (<<>> is None).
StrTruthy(s) == s # ""
ResponseTruthy(r) == r # None /\ r # <<"">>

\* str.lower() on the answers to the confirmation.
lower(s) == CASE s = "YES" -> "yes" [] s = "Y" -> "y" [] s = "NO" -> "no" [] OTHER -> s

\* The condition of line 159: (confirm.lower() == "yes") or "y".
delete_confirmed(confirm) == (lower(confirm) = "yes") \/ StrTruthy("y")

\* The text after the verb of an id command: a decimal integer or not.
IdArgs == {[isint |-> TRUE, n |-> n] : n \in SessionIds} \cup {[isint |-> FALSE, n |-> 0]}
ParsesInt(arg) == arg.isint
Answers == {"yes", "no"}

\* The titles typed at the prompts.  SessionSpec renames to other titles.
Titles == {"New Session"}

\* What call_ai_api may return: None (an exception, or no content), "" or a reply.
Responses == {None, <<"">>} \cup {<<r>> : r \in Replies}

CanCreate == db.sqlite_sequence.chat_sessions < MaxSessions
AtPrompt == pc = "prompt" /\ Idle

\* ChatCLI.__init__ on a new database file.
Init ==
    /\ db = load_models_from_yaml(initialize_database)
    /\ txn = <<>>
    /\ clock = 0
    /\ current_model \in DefaultModels
    /\ current_session_id = None
    /\ pc = "start"
    /\ io = Call("__init__", None, "", "")

\* run() up to the loop: the implicit first session.
Run ==
    /\ pc = "start"
    /\ CanCreate
    /\ IF ~Truthy(current_session_id)
       THEN /\ clock' = Now
            /\ db' = create_session(db, current_model, "New Session", "", Datetime(Now))
            /\ current_session_id' = <<lastrowid(db')>>
       ELSE UNCHANGED <<db, clock, current_session_id>>
    /\ pc' = "prompt"
    /\ io' = Call("run", None, "", "welcome")
    /\ UNCHANGED <<txn, current_model>>

EmptyInput ==
    /\ AtPrompt
    /\ io' = Call("", None, "", "")
    /\ UNCHANGED <<db, txn, clock, cliVars>>

\* /exit: process_command returns False, run() returns and the process ends.
\* Its fields end with it: "" and None stand for them until the next start.
CmdExit ==
    /\ AtPrompt
    /\ pc' = "exited"
    /\ current_model' = ""
    /\ current_session_id' = None
    /\ io' = Call("/exit", None, "", "")
    /\ UNCHANGED <<db, txn, clock>>

CmdListModels ==
    /\ AtPrompt
    /\ io' = Call("/list_models", None, "", "Available Models")
    /\ UNCHANGED <<db, txn, clock, cliVars>>

\* /switch_model without the check against the models table.
CmdSwitchModelUnchecked(model) ==
    /\ AtPrompt
    /\ current_model' = model
    /\ db' = IF Truthy(current_session_id)
             THEN update_session_model(db, current_session_id[1], model)
             ELSE db
    /\ io' = Call("/switch_model", None, model, "Switched to model")
    /\ UNCHANGED <<txn, clock, current_session_id, pc>>

CmdSwitchModel(model) ==
    /\ AtPrompt
    /\ IF model \in {m[1] : m \in get_all_models(db)}
       THEN /\ current_model' = model
            /\ db' = IF Truthy(current_session_id)
                     THEN update_session_model(db, current_session_id[1], model)
                     ELSE db
            /\ io' = Call("/switch_model", None, model, "Switched to model")
       ELSE /\ io' = Call("/switch_model", None, model, "Invalid model")
            /\ UNCHANGED <<db, current_model>>
    /\ UNCHANGED <<txn, clock, current_session_id, pc>>

CmdNewSession(title) ==
    /\ AtPrompt
    /\ CanCreate
    /\ clock' = Now
    /\ db' = create_session(db, current_model, title, "", Datetime(Now))
    /\ current_session_id' = <<lastrowid(db')>>
    /\ io' = Call("/new_session", None, title, "Created new session")
    /\ UNCHANGED <<txn, current_model, pc>>

CmdListSessions ==
    /\ AtPrompt
    /\ io' = Call("/list_sessions", None, "", "Chat Sessions")
    /\ UNCHANGED <<db, txn, clock, cliVars>>

\* /change_session that forgets to take over the model of the session.
CmdChangeSessionKeepModel(arg) ==
    /\ AtPrompt
    /\ IF ParsesInt(arg)
       THEN \E session \in get_session(db, arg.n) :
                IF session # None
                THEN /\ current_session_id' = <<arg.n>>
                     /\ io' = Call("/change_session", <<arg.n>>, "", "Switched to session")
                ELSE /\ io' = Call("/change_session", <<arg.n>>, "", "Session not found")
                     /\ UNCHANGED current_session_id
       ELSE /\ io' = Call("/change_session", None, "", "Invalid session ID")
            /\ UNCHANGED current_session_id
    /\ UNCHANGED <<db, txn, clock, pc, current_model>>

CmdChangeSession(arg) ==
    /\ AtPrompt
    /\ IF ParsesInt(arg)
       THEN \E session \in get_session(db, arg.n) :
                IF session # None
                THEN /\ current_session_id' = <<arg.n>>
                     /\ current_model' = session.current_model
                     /\ io' = Call("/change_session", <<arg.n>>, "", "Switched to session")
                ELSE /\ io' = Call("/change_session", <<arg.n>>, "", "Session not found")
                     /\ UNCHANGED <<current_session_id, current_model>>
       ELSE /\ io' = Call("/change_session", None, "", "Invalid session ID")
            /\ UNCHANGED <<current_session_id, current_model>>
    /\ UNCHANGED <<db, txn, clock, pc>>

CmdRenameSession(new_title) ==
    /\ AtPrompt
    /\ IF StrTruthy(new_title) /\ Truthy(current_session_id)
       THEN /\ db' = update_session_title(db, current_session_id[1], new_title)
            /\ io' = Call("/rename_session", None, new_title, "Session renamed")
       ELSE /\ io' = Call("/rename_session", None, new_title, "Provide a valid title")
            /\ UNCHANGED db
    /\ UNCHANGED <<txn, clock, cliVars>>

CmdDeleteSession(arg, confirm) ==
    /\ AtPrompt
    /\ IF ~ParsesInt(arg)
       THEN /\ io' = Call("/delete_session", None, "", "Invalid session ID")
            /\ UNCHANGED <<db, clock, current_session_id>>
       ELSE IF ~delete_confirmed(confirm)
       THEN /\ io' = Call("/delete_session", <<arg.n>>, confirm, "Delete canceled")
            /\ UNCHANGED <<db, clock, current_session_id>>
       ELSE IF current_session_id = <<arg.n>>
       THEN /\ CanCreate
            /\ clock' = Now
            /\ db' = create_session(delete_session(db, arg.n),
                                    current_model, "New Session", "", Datetime(Now))
            /\ current_session_id' = <<lastrowid(db')>>
            /\ io' = Call("/delete_session", <<arg.n>>, confirm, "Switched to new session")
       ELSE /\ db' = delete_session(db, arg.n)
            /\ io' = Call("/delete_session", <<arg.n>>, confirm, "deleted successfully")
            /\ UNCHANGED <<clock, current_session_id>>
    /\ UNCHANGED <<txn, current_model, pc>>

CmdHelp ==
    /\ AtPrompt
    /\ io' = Call("/help", None, "", "welcome")
    /\ UNCHANGED <<db, txn, clock, cliVars>>

\* An else branch that ends the loop as /exit does.
CmdUnknownExits ==
    /\ AtPrompt
    /\ pc' = "exited"
    /\ current_model' = ""
    /\ current_session_id' = None
    /\ io' = Call("/", None, "", "Unknown command")
    /\ UNCHANGED <<db, txn, clock>>

\* Any other line that starts with "/": reported, and the loop goes on.
CmdUnknown ==
    /\ AtPrompt
    /\ io' = Call("/", None, "", "Unknown command")
    /\ UNCHANGED <<db, txn, clock, cliVars>>

\* A chat turn: the body of the loop from line 198 on, with the result of
\* call_ai_api.  The two timestamps are two readings of the clock.
MessagesNeeded(response) == IF ResponseTruthy(response) THEN 2 ELSE 1

ChatTurn(user_input, response) ==
    /\ AtPrompt
    /\ db.sqlite_sequence.chat_messages + MessagesNeeded(response) <= MaxMessages
    /\ LET user_msg == ChatMessage("user", user_input, Datetime(Now), current_model)
           stored == add_message(db, current_session_id[1], user_msg)
           ai_msg == ChatMessage("assistant", response[1], Datetime(Now + 1), current_model)
       IN  IF ResponseTruthy(response)
           THEN /\ db' = add_message(stored, current_session_id[1], ai_msg)
                /\ clock' = Now + 1
                /\ io' = Call("chat", current_session_id, user_input, "AI")
           ELSE /\ db' = stored
                /\ clock' = Now
                /\ io' = Call("chat", current_session_id, user_input,
                              "Failed to get AI response")
    /\ UNCHANGED <<txn, cliVars>>

\* Ctrl-C while call_ai_api waits: KeyboardInterrupt passes its `except
\* Exception` and is caught by the loop.
ChatTurnInterrupted(user_input) ==
    /\ AtPrompt
    /\ db.sqlite_sequence.chat_messages < MaxMessages
    /\ clock' = Now
    /\ db' = add_message(db, current_session_id[1],
                         ChatMessage("user", user_input, Datetime(Now), current_model))
    /\ io' = Call("chat", current_session_id, user_input, "Use /exit to quit")
    /\ UNCHANGED <<txn, cliVars>>

\* The program is started again on the same database file.
Restart ==
    /\ pc = "exited"
    /\ db' = load_models_from_yaml(db)
    /\ current_model' \in DefaultModels
    /\ current_session_id' = None
    /\ pc' = "start"
    /\ io' = Call("__init__", None, "", "")
    /\ UNCHANGED <<txn, clock>>

Next ==
    \/ Run
    \/ EmptyInput
    \/ CmdExit
    \/ CmdListModels
    \/ \E model \in ModelNames : CmdSwitchModel(model)
    \/ \E title \in Titles : CmdNewSession(title)
    \/ CmdListSessions
    \/ \E arg \in IdArgs : CmdChangeSession(arg)
    \/ \E new_title \in Titles : CmdRenameSession(new_title)
    \/ \E arg \in IdArgs, confirm \in Answers : CmdDeleteSession(arg, confirm)
    \/ CmdHelp
    \/ CmdUnknown
    \/ \E user_input \in Contents, response \in Responses : ChatTurn(user_input, response)
    \/ \E user_input \in Contents : ChatTurnInterrupted(user_input)
    \/ Restart

Spec == Init /\ [][Next]_vars

(***************************************************************************)
(* Properties                                                              *)
(***************************************************************************)
DatetimeLess(a, b) == a.sec < b.sec \/ (a.sec = b.sec /\ a.usec < b.usec)

\* The rows ordered by timestamp, rows of equal timestamp by rowid.
ByTimestampThenId(rows) ==
    CHOOSE f \in Arrangements(rows) :
        \A i, j \in DOMAIN f : i < j =>
            LET a == convert_datetime(f[i].timestamp)
                b == convert_datetime(f[j].timestamp)
            IN  DatetimeLess(a, b) \/ (a = b /\ f[i].id < f[j].id)

Log(d, session_id) ==
    LET rows == ByTimestampThenId(MessageRows(d, session_id))
    IN  [i \in DOMAIN rows |-> MessageOfRow(rows[i])]

Affirmative == {"yes", "y"}

\* C1 (as claimed): whatever was appended to a session, get_session returns
\* exactly those messages by ascending timestamp, and messages of equal
\* timestamp in the order they were appended (rowid order).
C1_TiesInAppendOrder ==
    \A session_id \in SessionIds : \A session \in get_session(db, session_id) :
        session # None => session.messages = Log(db, session_id)

\* C2: once delete_session(id) has committed, get_session(id) is None, no
\* message row carries the id, and every other row of every table is as before.
C2_DeleteRemovesSessionAndMessages ==
    [][Commit =>
        LET session_id == txn[1].session_id IN
            /\ get_session(db', session_id) = {None}
            /\ MessageRows(db', session_id) = {}
            /\ db'.chat_sessions = {r \in db.chat_sessions : r.id # session_id}
            /\ db'.chat_messages = {m \in db.chat_messages : m.session_id # session_id}
            /\ db'.models = db.models]_vars

C2_Witness ==
    /\ Idle
    /\ io.op = "delete_session" /\ io.out = ""
    /\ SessionRows(db, io.sid[1]) = {}
    /\ io.sid[1] <= db.sqlite_sequence.chat_sessions
    /\ Cardinality(db.chat_messages) < db.sqlite_sequence.chat_messages
    /\ \E m \in db.chat_messages : SessionRows(db, m.session_id) # {}

\* C3 (as claimed): /delete_session <integer> answered with anything but an
\* affirmative is reported as canceled and changes neither the store nor the
\* active session and model.
C3_DeclinedDeleteIsNoOp ==
    [][(io'.op = "/delete_session" /\ io'.sid # None /\ lower(io'.arg) \notin Affirmative)
        => /\ io'.out = "Delete canceled"
           /\ UNCHANGED <<db, current_session_id, current_model>>]_vars

\* C4: a chat turn whose completion fails or comes back empty leaves exactly
\* one new message, the user's, in the active session, tagged with the active
\* model; nothing else in the store changes and the prompt is next.
C4_FailedTurnKeepsUserMessage ==
    [][io'.op = "chat" => \A user_input \in Contents, response \in Responses :
        (~ResponseTruthy(response) /\ ChatTurn(user_input, response)) =>
            /\ \E row \in db'.chat_messages :
                /\ row \notin db.chat_messages
                /\ db'.chat_messages = db.chat_messages \cup {row}
                /\ row.session_id = current_session_id[1]
                /\ row.role = "user"
                /\ row.content = user_input
                /\ row.model = current_model
            /\ \A session \in get_session(db', current_session_id[1]) :
                /\ session # None
                /\ Len(session.messages) = Cardinality(MessageRows(db, current_session_id[1])) + 1
                /\ \A i \in DOMAIN session.messages : session.messages[i].role = "assistant" =>
                    \E m \in MessageRows(db, current_session_id[1]) :
                        MessageOfRow(m) = session.messages[i]
            /\ db'.chat_sessions = db.chat_sessions
            /\ pc' = "prompt"]_vars

C4_Witness ==
    /\ pc = "prompt"
    /\ io.op = "chat" /\ io.out = "Failed to get AI response"
    /\ \E m \in MessageRows(db, current_session_id[1]) :
        /\ m.id = db.sqlite_sequence.chat_messages
        /\ m.role = "user"
    /\ ~\E m \in db.chat_messages : m.role = "assistant"

C6_DeleteActiveCreatesReplacement ==
    [][(io'.op = "/delete_session" /\ io'.sid # None /\ lower(io'.arg) \in Affirmative) =>
        IF current_session_id = io'.sid
        THEN /\ current_session_id' # io'.sid
             /\ current_session_id' # None
             /\ SessionRows(db, current_session_id'[1]) = {}
             /\ \E s \in SessionRows(db', current_session_id'[1]) :
                    s.current_model = current_model'
             /\ MessageRows(db', current_session_id'[1]) = {}
             /\ SessionRows(db', io'.sid[1]) = {}
        ELSE /\ current_session_id' = current_session_id
             /\ db'.chat_sessions \subseteq db.chat_sessions]_vars

C6_Witness ==
    /\ io.op = "/delete_session" /\ io.arg = "yes"
    /\ io.out = "Switched to new session"
    /\ current_session_id # io.sid
    /\ SessionRows(db, current_session_id[1]) # {}
    /\ db.sqlite_sequence.chat_messages > 0

\* C7: /switch_model with a name that is not in the models table reports
\* the error and changes neither the active model, the active session, nor any
\* row of the store.
C7_UnknownModelRejected ==
    [][(io'.op = "/switch_model" /\ ~ModelExists(db, io'.arg)) =>
        /\ io'.out = "Invalid model"
        /\ UNCHANGED <<db, current_model, current_session_id>>]_vars

C7_Witness ==
    /\ io.op = "/switch_model" /\ io.out = "Invalid model"
    /\ ~ModelExists(db, io.arg)
    /\ current_model # io.arg
    /\ db.chat_sessions # {}

\* C8 (as claimed): add_message for an id that no session row has fails and
\* leaves chat_messages as it was.
C8_AppendToMissingSessionFails ==
    [][(io'.op = "add_message" /\ SessionRows(db, io'.sid[1]) = {}) =>
        /\ io'.out # ""
        /\ db'.chat_messages = db.chat_messages]_vars

\* C9 (as claimed): update_session_model and update_session_title for an id
\* that no session row has fail with an error and leave the store as it was.
C9_UpdateMissingSessionFails ==
    [][(io'.op \in {"update_session_model", "update_session_title"}
            /\ SessionRows(db, io'.sid[1]) = {}) =>
        /\ io'.out # ""
        /\ db' = db]_vars

\* C10: while delete_session(id) runs, and if the process dies in it, the file
\* either stays as it was before the call (the session with all its messages)
\* or becomes the file without the session row and without any message of id.
C10_DeleteIsAtomic ==
    [][~Idle =>
        LET session_id == txn[1].session_id IN
            \/ db' = db
            \/ /\ Commit
               /\ SessionRows(db', session_id) = {}
               /\ MessageRows(db', session_id) = {}]_vars

C10_Witness ==
    /\ ~Idle
    /\ txn[1].stage = "session"
    /\ SessionRows(db, txn[1].session_id) # {}
    /\ MessageRows(db, txn[1].session_id) # {}
    /\ MessageRows(txn[1].work, txn[1].session_id) = {}

\* C11: /change_session <arg> with an integer id of an existing session makes
\* that id the active session and its stored current_model the active model;
\* with anything else it reports an error and changes neither.  The store is
\* unchanged either way.
C11_ChangeSession ==
    [][io'.op = "/change_session" =>
        /\ db' = db
        /\ IF io'.sid # None /\ SessionRows(db, io'.sid[1]) # {}
           THEN /\ current_session_id' = io'.sid
                /\ \A s \in SessionRows(db, io'.sid[1]) : current_model' = s.current_model
                /\ io'.out = "Switched to session"
           ELSE /\ UNCHANGED <<current_session_id, current_model>>
                /\ io'.out \in {"Session not found", "Invalid session ID"}]_vars

C11_Witness ==
    /\ io.op = "/change_session" /\ io.out = "Switched to session"
    /\ current_session_id = io.sid
    /\ \E s \in db.chat_sessions : s.id # io.sid[1] /\ s.current_model # current_model

\* C12 (as claimed): at every prompt the active model is a name of the models
\* table, and every message a chat turn stores is tagged with such a name.
C12_ActiveModelRegistered ==
    /\ pc = "prompt" => ModelExists(db, current_model)
    /\ io.op = "chat" =>
        \A m \in db.chat_messages :
            m.id = db.sqlite_sequence.chat_messages => ModelExists(db, m.model)

\* C13: insert_model with a name the models table already has returns without
\* raising and leaves the table as the first insert_model of that name left
\* it, with one row for the name; with a new name it adds that one row.
C13_InsertModelIdempotent ==
    [][io'.op = "insert_model" =>
        /\ io'.out \in {"", "already exists"}
        /\ Cardinality({m \in db'.models : m.name = io'.arg}) = 1
        /\ ModelExists(db, io'.arg) => db' = db]_vars

C13_Witness ==
    /\ io.op = "insert_model" /\ io.out = "already exists"
    /\ \E m \in db.models : m.name = io.arg
    /\ db.chat_sessions # {}

\* C14: whatever sessions were created and deleted, every list
\* get_all_sessions may return holds each session of the store once and no
\* other, a later start_time before an earlier one.
C14_SessionsNewestFirst ==
    \A list \in get_all_sessions(db) :
        /\ Len(list) = Cardinality(db.chat_sessions)
        /\ {list[i][1] : i \in DOMAIN list} = {s.id : s \in db.chat_sessions}
        /\ \A i \in DOMAIN list : \E s \in SessionRows(db, list[i][1]) :
            list[i] = <<s.id, convert_datetime(s.start_time), s.current_model, s.title>>
        /\ \A i, j \in DOMAIN list : i < j => ~DatetimeLess(list[i][2], list[j][2])

C14_Witness ==
    /\ io.op = "create_session"
    /\ Cardinality(db.chat_sessions) >= 2
    /\ \A list \in get_all_sessions(db) : list[1][1] = io.sid[1]

\* C15: the store's record of the largest session id ever given out never
\* decreases, and every id create_session returns is larger than that record
\* and than the id of every stored session, and becomes the record; so each
\* returned id is larger than all returned before it, deleted ones included.
C15_SessionIdsNeverReused ==
    [][/\ db'.sqlite_sequence.chat_sessions >= db.sqlite_sequence.chat_sessions
       /\ \A s \in db.chat_sessions : s.id <= db.sqlite_sequence.chat_sessions
       /\ io'.op = "create_session" =>
            /\ io'.sid[1] > db.sqlite_sequence.chat_sessions
            /\ io'.sid[1] = db'.sqlite_sequence.chat_sessions
            /\ db'.chat_sessions \ db.chat_sessions # {}
            /\ \A s \in db'.chat_sessions \ db.chat_sessions : s.id = io'.sid[1]]_vars

\* A session is created after the session of the highest id was deleted.
C15_Witness ==
    /\ io.op = "create_session"
    /\ io.sid[1] = 2
    /\ {s.id : s \in db.chat_sessions} = {2}

\* C16: a step keeps every message row of a session that exists before and
\* after it, field for field; a row disappears only in a /delete_session of
\* the row's own session; and no input other than a chat line and
\* /delete_session changes chat_messages at all.
C16_MessagesAppendOnly ==
    [][/\ \A session_id \in SessionIds :
            (SessionRows(db, session_id) # {} /\ SessionRows(db', session_id) # {})
                => MessageRows(db, session_id) \subseteq MessageRows(db', session_id)
       /\ \A m \in db.chat_messages \ db'.chat_messages :
            /\ io'.op = "/delete_session"
            /\ io'.sid = <<m.session_id>>
            /\ SessionRows(db', m.session_id) = {}
       /\ io'.op \notin {"chat", "/delete_session"} =>
            db'.chat_messages = db.chat_messages]_vars

C16_Witness ==
    /\ io.op = "/delete_session" /\ io.out = "deleted successfully"
    /\ db.chat_messages # {}
    /\ Cardinality(db.chat_messages) < db.sqlite_sequence.chat_messages
    /\ \A m \in db.chat_messages : SessionRows(db, m.session_id) # {}

\* C17: a line that starts with "/" and is no command is reported as unknown,
\* changes neither the store nor the active session and model, and is
\* followed by the prompt; the loop is left only on /exit.
C17_UnknownCommandKeepsLoop ==
    [][/\ io'.op = "/" =>
            /\ io'.out = "Unknown command"
            /\ UNCHANGED <<db, current_session_id, current_model>>
            /\ pc' = "prompt"
       /\ (pc = "prompt" /\ pc' # "prompt") => io'.op = "/exit"]_vars

C17_Witness ==
    /\ io.op = "/" /\ io.out = "Unknown command"
    /\ pc = "prompt"
    /\ db.chat_messages # {}
    /\ SessionRows(db, current_session_id[1]) # {}

\* C18: /switch_model <name> with a name of the models table, a session being
\* active, makes name the active model and the stored current_model of the
\* active session; the active session id, every other field and every other
\* session, the messages with their model tags and the models are as before.
C18_SwitchModelPersists ==
    [][(io'.op = "/switch_model" /\ ModelExists(db, io'.arg) /\ current_session_id # None) =>
        /\ io'.out = "Switched to model"
        /\ current_model' = io'.arg
        /\ current_session_id' = current_session_id
        /\ SessionRows(db', current_session_id[1]) # {}
        /\ \A s \in SessionRows(db', current_session_id[1]) :
            /\ s.current_model = io'.arg
            /\ \E old \in SessionRows(db, current_session_id[1]) :
                [s EXCEPT !.current_model = old.current_model] = old
        /\ {s \in db'.chat_sessions : <<s.id>> # current_session_id}
            = {s \in db.chat_sessions : <<s.id>> # current_session_id}
        /\ db'.chat_messages = db.chat_messages
        /\ db'.models = db.models]_vars

C18_Witness ==
    /\ io.op = "/switch_model" /\ io.out = "Switched to model"
    /\ current_model = io.arg
    /\ \E s \in db.chat_sessions : <<s.id>> # current_session_id /\ s.current_model # io.arg
    /\ \E m \in MessageRows(db, current_session_id[1]) : m.model # io.arg

\* C19: at every prompt the active session id is the id of a stored session,
\* and in every state each stored message has the id of a stored session.
C19_ActiveSessionExists ==
    /\ pc = "prompt" =>
        /\ current_session_id # None
        /\ SessionRows(db, current_session_id[1]) # {}
    /\ \A m \in db.chat_messages : SessionRows(db, m.session_id) # {}

C19_Witness ==
    /\ pc = "prompt"
    /\ io.op = "chat"
    /\ Cardinality(db.chat_sessions) < db.sqlite_sequence.chat_sessions
    /\ MessageRows(db, current_session_id[1]) # {}
    /\ Cardinality(db.chat_messages) < db.sqlite_sequence.chat_messages

\* C20: at every prompt the active model is the stored current_model of the
\* active session, and the message a chat line has just stored is tagged with
\* the stored current_model of its session.
C20_ActiveModelIsStoredModel ==
    /\ pc = "prompt" =>
        \A s \in SessionRows(db, current_session_id[1]) : s.current_model = current_model
    /\ io.op = "chat" =>
        \A m \in db.chat_messages :
            m.id = db.sqlite_sequence.chat_messages =>
                \A s \in SessionRows(db, m.session_id) : m.model = s.current_model

C20_Witness ==
    /\ pc = "prompt"
    /\ io.op = "chat"
    /\ SessionRows(db, current_session_id[1]) # {}
    /\ \E a, b \in MessageRows(db, current_session_id[1]) :
        a.model # b.model /\ b.model = current_model

====
